---- MODULE Spec2Model ----
(***************************************************************************)
(* A model of the Assignment-Plagiarism-Checker: textProcessing            *)
(* (preprocessText, createShingles, rabinKarpSearch, editDistance,         *)
(* longestCommonSubstring), similarityComputation (jaccardSimilarity,      *)
(* computeAllSimilarities), clustering (Graph, createClusters,             *)
(* createGraphData) and the Index page, whose handleFilesProcessed runs    *)
(* the analysis in a worker or on the main thread.                         *)
(*                                                                         *)
(* A JavaScript string is a sequence of one-character strings.  A number   *)
(* that the code obtains by division is kept exact, as a fraction          *)
(* [num, den] in lowest terms with den > 0.                                *)
(***************************************************************************)
EXTENDS Integers, Sequences, FiniteSets, TLC

VARIABLES text, k, shingles, documents, similarities, threshold, clusters, pc,
          strA, strB, strC, cap, pat, result, graph, graphData,
          isProcessing, workerDefined, runs, workers

vars == <<text, k, shingles, documents, similarities, threshold, clusters, pc,
          strA, strB, strC, cap, pat, result, graph, graphData,
          isProcessing, workerDefined, runs, workers>>

\* the state of the page apart from its results, and of the runs of
\* handleFilesProcessed and their workers
pageVars == <<isProcessing, workerDefined, runs, workers>>

\* no page is open
NoPage ==
  /\ isProcessing = FALSE
  /\ workerDefined = FALSE
  /\ runs = <<>>
  /\ workers = <<>>

\* the arguments and the result of a string function applied on its own
stringVars == <<strA, strB, strC, cap, pat, result>>

\* a value not assigned yet (null)
Null == [null |-> TRUE]

\* no string function is applied
NoStrings ==
  /\ strA = <<>>
  /\ strB = <<>>
  /\ strC = <<>>
  /\ cap = 0
  /\ pat = <<>>
  /\ result = Null

(***************************************************************************)
(* Bounds of the model.                                                    *)
(***************************************************************************)
\* longest text given to createShingles, and longest content of two equal documents
MaxLen == 7
\* longest content of each of two arbitrary documents
MaxPairLen == 5
\* largest shingle size k given to createShingles
MaxK == 3
\* most documents in one call
MaxDocs == 4
\* most SimilarityResult entries handed to createClusters directly
MaxSims == 4

\* longest string given to editDistance and to longestCommonSubstring
MaxStrLen == 3
\* largest maxChars given to longestCommonSubstring
MaxCap == 3

\* most files of one upload
MaxFiles == 2
\* most vertices of a graph built by addVertex and addEdge
MaxVertices == 4
\* most edges of such a graph
MaxEdges == 4
\* longest text and longest pattern of the short inputs of rabinKarpSearch
MaxTextLen == 4
MaxPatLen == 2
\* largest e for which Math.pow(256, e) is finite: 256^127 = 2^1016, and doubles
\* end below 2^1024
MaxFinitePow == 127

\* the characters texts are drawn from: one whitespace character, one letter
Chars == {" ", "a"}

\* the characters the strings compared letter by letter are drawn from
Letters == {"a", "b"}

RECURSIVE StringsOfLen(_)
StringsOfLen(n) ==
  IF n = 0 THEN {<<>>}
  ELSE {Append(t, c) : t \in StringsOfLen(n - 1), c \in Letters}

StringsUpTo(n) == UNION {StringsOfLen(m) : m \in 0..n}

RECURSIVE TextsOfLen(_)
TextsOfLen(n) ==
  IF n = 0 THEN {<<>>}
  ELSE {Append(t, c) : t \in TextsOfLen(n - 1), c \in Chars}

TextsUpTo(n) == UNION {TextsOfLen(m) : m \in 0..n}

(***************************************************************************)
(* Exact fractions.                                                        *)
(***************************************************************************)
RECURSIVE GCD(_, _)
GCD(a, b) == IF b = 0 THEN a ELSE GCD(b, a % b)

\* n / d in lowest terms, for n >= 0 and d > 0: equal fractions are equal records
Rat(n, d) == [num |-> n \div GCD(n, d), den |-> d \div GCD(n, d)]

RatEq(a, b) == a.num = b.num /\ a.den = b.den

RatAdd(a, b) == Rat(a.num * b.den + b.num * a.den, a.den * b.den)

\* a >= t for a fraction a and an integer t
RatGeqInt(a, t) == a.num >= t * a.den

Max2(a, b) == IF a >= b THEN a ELSE b

Min2(a, b) == IF a <= b THEN a ELSE b

(***************************************************************************)
(* String primitives of the language the code relies on.                   *)
(***************************************************************************)
\* /\s/ : the whitespace class
IsSpace(c) == c = " "

\* String.prototype.split(/\s+/): the pieces between maximal whitespace runs;
\* a run at either end leaves an empty piece there, and "" gives [""].
RECURSIVE SplitFrom(_, _, _, _)
SplitFrom(s, i, cur, out) ==
  IF i > Len(s) THEN Append(out, cur)
  ELSE IF IsSpace(s[i])
       THEN IF i > 1 /\ IsSpace(s[i - 1])
            THEN SplitFrom(s, i + 1, cur, out)
            ELSE SplitFrom(s, i + 1, <<>>, Append(out, cur))
       ELSE SplitFrom(s, i + 1, Append(cur, s[i]), out)

SplitWS(s) == SplitFrom(s, 1, <<>>, <<>>)

\* Array.prototype.join(' ')
RECURSIVE JoinFrom(_, _)
JoinFrom(ws, i) ==
  IF i > Len(ws) THEN <<>>
  ELSE IF i = Len(ws) THEN ws[i]
  ELSE ws[i] \o <<" ">> \o JoinFrom(ws, i + 1)

Join(ws) == JoinFrom(ws, 1)

\* String.prototype.substring(a, b) for 0 <= a <= b, 0-based, b exclusive
Substring(s, a, b) == SubSeq(s, a + 1, Min2(b, Len(s)))

\* the elements of a sequence, as a set (new Set(array))
SetOf(seq) == {seq[i] : i \in 1..Len(seq)}

(***************************************************************************)
(* textProcessing.preprocessText                                           *)
(***************************************************************************)
UpperCase == <<"A", "B", "C", "D", "E", "F", "G", "H", "I", "J", "K", "L", "M",
              "N", "O", "P", "Q", "R", "S", "T", "U", "V", "W", "X", "Y", "Z">>

LowerCase == <<"a", "b", "c", "d", "e", "f", "g", "h", "i", "j", "k", "l", "m",
              "n", "o", "p", "q", "r", "s", "t", "u", "v", "w", "x", "y", "z">>

Digits == {"0", "1", "2", "3", "4", "5", "6", "7", "8", "9"}

\* a character outside \x20-\x7E that is not whitespace; the one element
\* "<00>" of a text stands for the character U+0000
NonPrintable == {"<00>"}

\* String.prototype.toLowerCase, one character
lowerOf(c) ==
  IF \E i \in 1..Len(UpperCase) : UpperCase[i] = c
  THEN LowerCase[CHOOSE i \in 1..Len(UpperCase) : UpperCase[i] = c]
  ELSE c

toLowerCase(s) == [i \in 1..Len(s) |-> lowerOf(s[i])]

\* /\w/ : the word class
IsWordChar(c) == c \in SetOf(UpperCase) \cup SetOf(LowerCase) \cup Digits \cup {"_"}

\* the words the Set STOPWORDS starts with
BaseStopwords ==
  {<<"a">>, <<"a", "n">>, <<"a", "n", "d">>, <<"a", "r", "e">>, <<"a", "s">>,
   <<"a", "t">>, <<"b", "e">>, <<"b", "y">>, <<"f", "o", "r">>,
   <<"f", "r", "o", "m">>, <<"h", "a", "s">>, <<"h", "e">>, <<"i", "n">>,
   <<"i", "s">>, <<"i", "t">>, <<"i", "t", "s">>, <<"o", "f">>, <<"o", "n">>,
   <<"t", "h", "a", "t">>, <<"t", "h", "e">>, <<"t", "o">>,
   <<"w", "a", "s">>, <<"w", "i", "l", "l">>, <<"w", "i", "t", "h">>,
   <<"t", "h", "i", "s">>, <<"b", "u", "t">>, <<"t", "h", "e", "y">>,
   <<"h", "a", "v", "e">>, <<"h", "a", "d">>, <<"w", "h", "a", "t">>,
   <<"w", "h", "e", "n">>, <<"w", "h", "e", "r", "e">>, <<"w", "h", "o">>,
   <<"w", "h", "i", "c", "h">>, <<"w", "h", "y">>, <<"h", "o", "w">>}

PDF_TOKENS ==
  <<<<"e", "n", "d", "o", "b", "j">>, <<"o", "b", "j">>,
    <<"s", "t", "r", "e", "a", "m">>,
    <<"e", "n", "d", "s", "t", "r", "e", "a", "m">>, <<"x", "r", "e", "f">>,
    <<"t", "r", "a", "i", "l", "e", "r">>,
    <<"f", "l", "a", "t", "e", "d", "e", "c", "o", "d", "e">>,
    <<"f", "i", "l", "t", "e", "r">>, <<"l", "e", "n", "g", "t", "h">>,
    <<"i", "d">>, <<"t", "y", "p", "e">>,
    <<"s", "u", "b", "t", "y", "p", "e">>, <<"i", "m", "a", "g", "e">>,
    <<"c", "o", "l", "o", "r", "s", "p", "a", "c", "e">>,
    <<"b", "i", "t", "s", "p", "e", "r", "c", "o", "m", "p", "o", "n", "e", "n", "t">>,
    <<"d", "e", "c", "o", "d", "e">>, <<"w", "i", "d", "t", "h">>,
    <<"h", "e", "i", "g", "h", "t">>>>

\* STOPWORDS after for (const t of PDF_TOKENS) STOPWORDS.add(t)
STOPWORDS == BaseStopwords \cup SetOf(PDF_TOKENS)

\* the alternatives of /%PDF|endobj|stream|FlateDecode/i, in lower case
PdfMarks ==
  {<<"%", "p", "d", "f">>, <<"e", "n", "d", "o", "b", "j">>,
   <<"s", "t", "r", "e", "a", "m">>,
   <<"f", "l", "a", "t", "e", "d", "e", "c", "o", "d", "e">>}

\* word is at offset i (from 0) of s, letter case ignored
MatchesAt(s, i, word) ==
  /\ i + Len(word) <= Len(s)
  /\ \A j \in 1..Len(word) : lowerOf(s[i + j]) = word[j]

looksLikePDF(s) ==
  \E word \in PdfMarks : \E i \in 0..(Len(s) - Len(word)) : MatchesAt(s, i, word)

\* nonPrintableMatches.length / text.length > 0.2
mostlyBinary(s) ==
  Cardinality({i \in 1..Len(s) : s[i] \in NonPrintable}) * 5 > Len(s)

\* cleaned.replace(new RegExp(PDF_TOKENS.join('|'), 'gi'), ' '): at each offset
\* the first alternative that matches is replaced
RECURSIVE removePdfTokens(_, _)
removePdfTokens(s, i) ==
  IF i >= Len(s) THEN <<>>
  ELSE LET hits == {t \in 1..Len(PDF_TOKENS) : MatchesAt(s, i, PDF_TOKENS[t])}
       IN  IF hits = {}
           THEN <<s[i + 1]>> \o removePdfTokens(s, i + 1)
           ELSE LET first == CHOOSE t \in hits : \A u \in hits : t <= u
                IN  <<" ">> \o removePdfTokens(s, i + Len(PDF_TOKENS[first]))

\* cleaned.replace(/[^\x20-\x7E\s]+/g, ' '): each run becomes one space
RECURSIVE removeBinary(_, _)
removeBinary(s, i) ==
  IF i > Len(s) THEN <<>>
  ELSE IF s[i] \in NonPrintable
       THEN (IF i > 1 /\ s[i - 1] \in NonPrintable THEN <<>> ELSE <<" ">>)
            \o removeBinary(s, i + 1)
       ELSE <<s[i]>> \o removeBinary(s, i + 1)

\* replace(/[^\w\s]/g, ' ')
removePunctuation(s) ==
  [i \in 1..Len(s) |-> IF IsWordChar(s[i]) \/ IsSpace(s[i]) THEN s[i] ELSE " "]

preprocessText(s) ==
  IF s = <<>> THEN <<>>
  ELSE LET cleaned == IF looksLikePDF(s) \/ mostlyBinary(s)
                      THEN removeBinary(removePdfTokens(s, 0), 1)
                      ELSE s
           words == SplitWS(removePunctuation(toLowerCase(cleaned)))
       IN  Join(SelectSeq(words, LAMBDA word : Len(word) > 2 /\ word \notin STOPWORDS))

(***************************************************************************)
(* textProcessing.createShingles                                           *)
(***************************************************************************)
createShinglesLong(s, kk) ==
  LET words == SplitWS(s)
  IN  [i \in 1..Max2(0, Len(words) - kk + 2) |->
         Join(SubSeq(words, i, Min2(i + kk - 1, Len(words))))]

createShingles(s, kk) ==
  LET words == SplitWS(s)
  IN  [i \in 1..Max2(0, Len(words) - kk + 1) |-> Join(SubSeq(words, i, i + kk - 1))]

(***************************************************************************)
(* textProcessing.editDistance: the (m+1) x (n+1) table, one row at a time. *)
(* A row is kept 1-based: row[j + 1] is dp[i][j].                          *)
(***************************************************************************)
Min3(a, b, c) == Min2(a, Min2(b, c))

RECURSIVE EditRow(_, _, _, _)
EditRow(prev, c, str2, cur) ==
  LET j == Len(cur)
  IN  IF j > Len(str2) THEN cur
      ELSE EditRow(prev, c, str2,
                   Append(cur, IF c = str2[j]
                               THEN prev[j]
                               ELSE 1 + Min3(prev[j + 1], cur[j], prev[j])))

RECURSIVE EditRows(_, _, _, _)
EditRows(str1, str2, i, prev) ==
  IF i > Len(str1) THEN prev
  ELSE LET row == EditRow(prev, str1[i], str2, <<i>>)
       IN  \* row i is complete (n + 1 cells) before row i + 1 is entered
           IF Len(row) = 0 THEN row ELSE EditRows(str1, str2, i + 1, row)

editDistanceNoBase(str1, str2) ==
  LET row0 == [j \in 1..(Len(str2) + 1) |-> 0]
  IN  EditRows(str1, str2, 1, row0)[Len(str2) + 1]

editDistance(str1, str2) ==
  LET row0 == [j \in 1..(Len(str2) + 1) |-> j - 1]
  IN  EditRows(str1, str2, 1, row0)[Len(str2) + 1]

(***************************************************************************)
(* textProcessing.longestCommonSubstring                                   *)
(***************************************************************************)
RECURSIVE LcsRow(_, _, _, _, _)
LcsRow(prev, c, s2, i, st) ==
  LET j == Len(st.cur)
  IN  IF j > Len(s2) THEN st
      ELSE LET v == IF c = s2[j] THEN prev[j] + 1 ELSE 0
               better == v > st.maxLength
           IN  LcsRow(prev, c, s2, i,
                      [cur       |-> Append(st.cur, v),
                       maxLength |-> IF better THEN v ELSE st.maxLength,
                       endIndex  |-> IF better THEN i ELSE st.endIndex])

RECURSIVE LcsRows(_, _, _, _)
LcsRows(s1, s2, i, st) ==
  IF i > Len(s1) THEN st
  ELSE LET row == LcsRow(st.cur, s1[i], s2, i,
                         [cur |-> <<0>>, maxLength |-> st.maxLength,
                          endIndex |-> st.endIndex])
       IN  \* row i is complete (n + 1 cells) before row i + 1 is entered
           IF Len(row.cur) = 0 THEN row ELSE LcsRows(s1, s2, i + 1, row)

longestCommonSubstringHalfCap(str1, str2, maxChars) ==
  LET s1 == IF Len(str1) > maxChars THEN Substring(str1, 0, maxChars) ELSE str1
      s2 == str2
      st == LcsRows(s1, s2, 1,
                    [cur |-> [j \in 1..(Len(s2) + 1) |-> 0],
                     maxLength |-> 0, endIndex |-> 0])
  IN  Substring(s1, st.endIndex - st.maxLength, st.endIndex)

longestCommonSubstring(str1, str2, maxChars) ==
  LET s1 == IF Len(str1) > maxChars THEN Substring(str1, 0, maxChars) ELSE str1
      s2 == IF Len(str2) > maxChars THEN Substring(str2, 0, maxChars) ELSE str2
      st == LcsRows(s1, s2, 1,
                    [cur |-> [j \in 1..(Len(s2) + 1) |-> 0],
                     maxLength |-> 0, endIndex |-> 0])
  IN  Substring(s1, st.endIndex - st.maxLength, st.endIndex)

(***************************************************************************)
(* textProcessing.rabinKarpHash and rabinKarpSearch.  A JavaScript number  *)
(* is [nan, val]: NaN, or the integer val.  Every intermediate value of    *)
(* the search that is a number is an integer below 2^53 and hence exact,   *)
(* except Math.pow(base, m - 1): it is the exact power of two while that   *)
(* is finite (1 / base for m = 0), and Infinity beyond, whose remainder    *)
(* is NaN.                                                                 *)
(***************************************************************************)
\* charCodeAt of the letters the searched strings are drawn from
charCode(c) ==
  CASE c = "a" -> 97
    [] c = "e" -> 101
    [] c = "o" -> 111

NaN == [nan |-> TRUE, val |-> 0]

Num(v) == [nan |-> FALSE, val |-> v]

\* a % b of JavaScript for integers and b > 0: the sign is that of a
JsRem(a, b) == IF a >= 0 THEN a % b ELSE 0 - ((0 - a) % b)

\* the loop of rabinKarpHash over str[lo..hi], entered with hash.  The range is
\* halved, and the hash after the first half is obtained (it is a remainder,
\* never negative) before the second half is entered, so that the evaluation
\* stays shallow on long strings.
RECURSIVE hashOver(_, _, _, _, _)
hashOver(str, prime, lo, hi, hash) ==
  IF lo > hi THEN hash
  ELSE IF lo = hi THEN (hash * 256 + charCode(str[lo])) % prime
  ELSE LET mid == (lo + hi) \div 2
           half == hashOver(str, prime, lo, mid, hash)
       IN  IF half < 0 THEN half ELSE hashOver(str, prime, mid + 1, hi, half)

rabinKarpHash(str, prime) == hashOver(str, prime, 1, Len(str), 0)

\* base^e % prime for e >= 0, the power being exact; by squaring
RECURSIVE powRem(_, _, _)
powRem(base, e, prime) ==
  IF e = 0 THEN 1 % prime
  ELSE LET half == powRem(base, e \div 2, prime)
       IN  IF e % 2 = 0 THEN (half * half) % prime
           ELSE (((half * half) % prime) * base) % prime

\* h = Math.pow(base, m - 1) % prime, as [nan, inverse, val]: NaN, or 1 / base
\* (m = 0), or the integer val
highOrder(base, m, prime) ==
  IF m - 1 > MaxFinitePow THEN [nan |-> TRUE, inverse |-> FALSE, val |-> 0]
  ELSE IF m = 0 THEN [nan |-> FALSE, inverse |-> TRUE, val |-> 0]
  ELSE [nan |-> FALSE, inverse |-> FALSE, val |-> powRem(base, m - 1, prime)]

\* (base * (textHash - out * h) + in) % prime, plus prime when negative
rollHash(base, prime, h, textHash, out, in) ==
  IF h.nan \/ textHash.nan THEN NaN
  ELSE LET lost == IF h.inverse THEN out ELSE base * out * h.val
           r == JsRem(base * textHash.val - lost + in, prime)
       IN  Num(IF r < 0 THEN r + prime ELSE r)

RECURSIVE searchFrom(_, _, _, _, _, _)
searchFrom(txt, pattern, patternHash, h, i, st) ==
  LET prime == 101
      base == 256
      m == Len(pattern)
      n == Len(txt)
  IN  IF i > n - m THEN st.matches
      ELSE LET hit == /\ ~ st.textHash.nan
                      /\ patternHash = st.textHash.val
                      /\ Substring(txt, i, i + m) = pattern
               found == IF hit THEN Append(st.matches, i) ELSE st.matches
               rolled == IF i < n - m
                         THEN rollHash(base, prime, h, st.textHash,
                                       charCode(txt[i + 1]), charCode(txt[i + m + 1]))
                         ELSE st.textHash
           IN  searchFrom(txt, pattern, patternHash, h, i + 1,
                          [matches |-> found, textHash |-> rolled])

rabinKarpSearch(txt, pattern) ==
  LET prime == 101
      base == 256
      m == Len(pattern)
      n == Len(txt)
  IN  IF m > n THEN <<>>
      ELSE searchFrom(txt, pattern, rabinKarpHash(pattern, prime),
                      highOrder(base, m, prime), 0,
                      [matches |-> <<>>,
                       textHash |-> Num(rabinKarpHash(Substring(txt, 0, m), prime))])

(***************************************************************************)
(* similarityComputation.jaccardSimilarity                                 *)
(***************************************************************************)
jaccardOverFirst(shingles1, shingles2) ==
  LET set1 == SetOf(shingles1)
      set2 == SetOf(shingles2)
      intersection == {x \in set1 : x \in set2}
  IN  IF Cardinality(set1) = 0 THEN Rat(0, 1)
      ELSE Rat(Cardinality(intersection), Cardinality(set1))

jaccardSimilarity(shingles1, shingles2) ==
  LET set1 == SetOf(shingles1)
      set2 == SetOf(shingles2)
      intersection == {x \in set1 : x \in set2}
      union == set1 \cup set2
  IN  IF Cardinality(union) = 0 THEN Rat(0, 1)
      ELSE Rat(Cardinality(intersection), Cardinality(union))

(***************************************************************************)
(* similarityComputation.computeAllSimilarities                            *)
(***************************************************************************)
\* d.content.split(/\s+/).filter(Boolean).length || 0
wordCountOf(content) == Len(SelectSeq(SplitWS(content), LAMBDA w : w # <<>>))

\* for (const sh of set1) if (set2.has(sh)) commonCount++
commonCountOf(s1, s2) ==
  Cardinality({sh \in SetOf(s1) : sh \in SetOf(s2)})

\* Math.max(1, Math.floor((wordCounts[i] + wordCounts[j]) / 2))
avgWordsCeil(wi, wj) == Max2(1, (wi + wj + 1) \div 2)

avgWordsOf(wi, wj) == Max2(1, (wi + wj) \div 2)

\* the legacy composite score, before the final * 100
compositeOf(c1, c2, jaccardScore) ==
  IF jaccardScore.num * 100 > 15 * jaccardScore.den
  THEN LET sample1 == Substring(c1, 0, 500)
           sample2 == Substring(c2, 0, 500)
           maxLen == Max2(Len(sample1), Len(sample2))
           editDist == editDistance(sample1, sample2)
           editScore == IF maxLen = 0 THEN Rat(0, 1)
                        ELSE Rat(maxLen - editDist, maxLen)
           lcs == longestCommonSubstring(c1, c2, 800)
           denom == Min3(Len(c1), Len(c2), 800)
           lcsScore == IF denom = 0 THEN Rat(0, 1) ELSE Rat(Len(lcs), denom)
       IN  RatAdd(RatAdd(Rat(jaccardScore.num * 5, jaccardScore.den * 10),
                         Rat(editScore.num * 3, editScore.den * 10)),
                  Rat(lcsScore.num * 2, lcsScore.den * 10))
  ELSE jaccardScore

\* the body of the inner loop: the SimilarityResult of positions i < j (1-based)
pairResult(docs, preShingles, wordCounts, i, j) ==
  LET s1 == preShingles[i]
      s2 == preShingles[j]
      jaccardScore == jaccardSimilarity(s1, s2)
      commonCount == commonCountOf(s1, s2)
      avgWords == avgWordsOf(wordCounts[i], wordCounts[j])
      matchMetric == Rat(commonCount * 100, avgWords)
      compositeScore == compositeOf(docs[i].content, docs[j].content, jaccardScore)
      lcsVerbose == longestCommonSubstring(docs[i].content, docs[j].content, 2000)
      matchedSections ==
        IF RatGeqInt(matchMetric, 5) /\ Len(lcsVerbose) > 50
        THEN <<Substring(lcsVerbose, 0, 200) \o <<".", ".", ".">>>>
        ELSE <<>>
  IN  [doc1Id          |-> docs[i].id,
       doc2Id          |-> docs[j].id,
       doc1Name        |-> docs[i].name,
       doc2Name        |-> docs[j].name,
       similarity      |-> matchMetric,
       matchedSections |-> matchedSections,
       rawMatchCount   |-> commonCount,
       avgWords        |-> avgWords,
       matchMetric     |-> matchMetric,
       compositeScore  |-> Rat(compositeScore.num * 100, compositeScore.den)]

\* for (i = 0; i < n; i++) for (j = i + 1; j < n; j++) results.push(...)
RECURSIVE pairLoop(_, _, _, _, _, _)
pairLoop(docs, preShingles, wordCounts, i, j, results) ==
  IF i > Len(docs) THEN results
  ELSE IF j > Len(docs)
       THEN pairLoop(docs, preShingles, wordCounts, i + 1, i + 2, results)
       ELSE pairLoop(docs, preShingles, wordCounts, i, j + 1,
                     Append(results, pairResult(docs, preShingles, wordCounts, i, j)))

RECURSIVE pairLoopFromSelf(_, _, _, _, _, _)
pairLoopFromSelf(docs, preShingles, wordCounts, i, j, results) ==
  IF i > Len(docs) THEN results
  ELSE IF j > Len(docs)
       THEN pairLoopFromSelf(docs, preShingles, wordCounts, i + 1, i + 1, results)
       ELSE pairLoopFromSelf(docs, preShingles, wordCounts, i, j + 1,
                     Append(results, pairResult(docs, preShingles, wordCounts, i, j)))

computeAllSimilaritiesFromSelf(docs) ==
  pairLoopFromSelf(docs, [d \in 1..Len(docs) |-> createShingles(docs[d].content, 3)],
                   [d \in 1..Len(docs) |-> wordCountOf(docs[d].content)], 1, 1, <<>>)

computeAllSimilarities(docs) ==
  LET preShingles == [d \in 1..Len(docs) |-> createShingles(docs[d].content, 3)]
      wordCounts == [d \in 1..Len(docs) |-> wordCountOf(docs[d].content)]
  IN  pairLoop(docs, preShingles, wordCounts, 1, 2, <<>>)

(***************************************************************************)
(* clustering.Graph: adjList is a Map of Sets, both kept in insertion      *)
(* order: keys is the order of the Map's keys, nbrs[v] that of v's Set.    *)
(***************************************************************************)
emptyGraph == [keys |-> <<>>, nbrs |-> <<>>]

hasVertex(g, v) == v \in SetOf(g.keys)

addVertex(g, v) ==
  IF hasVertex(g, v) THEN g
  ELSE [keys |-> Append(g.keys, v), nbrs |-> (v :> <<>>) @@ g.nbrs]

\* Set.prototype.add
setAdd(seq, x) == IF x \in SetOf(seq) THEN seq ELSE Append(seq, x)

addEdgeOneWay(g, v1, v2) ==
  LET g2 == addVertex(addVertex(g, v1), v2)
  IN  [g2 EXCEPT !.nbrs[v1] = setAdd(@, v2)]

addEdge(g, v1, v2) ==
  LET g2 == addVertex(addVertex(g, v1), v2)
      g3 == [g2 EXCEPT !.nbrs[v1] = setAdd(@, v2)]
  IN  [g3 EXCEPT !.nbrs[v2] = setAdd(@, v1)]

\* dfs(vertex, component), with the visited set and the component it updates
RECURSIVE dfs(_, _, _)
RECURSIVE dfsNeighbors(_, _, _, _)
dfs(g, vertex, st) ==
  dfsNeighbors(g, g.nbrs[vertex], 1,
               [visited   |-> st.visited \cup {vertex},
                component |-> Append(st.component, vertex)])

dfsNeighbors(g, neighbors, n, st) ==
  IF n > Len(neighbors) THEN st
  ELSE dfsNeighbors(g, neighbors, n + 1,
                    IF neighbors[n] \notin st.visited
                    THEN dfs(g, neighbors[n], st)
                    ELSE st)

RECURSIVE componentsFromFresh(_, _, _, _)
componentsFromFresh(g, n, visited, components) ==
  IF n > Len(g.keys) THEN components
  ELSE IF g.keys[n] \in visited
       THEN componentsFromFresh(g, n + 1, visited, components)
       ELSE LET st == dfs(g, g.keys[n], [visited |-> {}, component |-> <<>>])
            IN  componentsFromFresh(g, n + 1, visited \cup {g.keys[n]},
                                    Append(components, st.component))

\* for (const vertex of this.adjList.keys()) if (!visited.has(vertex)) ...
RECURSIVE componentsFrom(_, _, _, _)
componentsFrom(g, n, visited, components) ==
  IF n > Len(g.keys) THEN components
  ELSE IF g.keys[n] \in visited
       THEN componentsFrom(g, n + 1, visited, components)
       ELSE LET st == dfs(g, g.keys[n], [visited |-> visited, component |-> <<>>])
            IN  componentsFrom(g, n + 1, st.visited, Append(components, st.component))

findConnectedComponents(g) == componentsFrom(g, 1, {}, <<>>)

\* the for loop of bfs over the neighbours of the vertex taken from the queue
RECURSIVE enqueueNeighbors(_, _, _)
enqueueNeighbors(neighbors, n, st) ==
  IF n > Len(neighbors) THEN st
  ELSE enqueueNeighbors(neighbors, n + 1,
                        IF neighbors[n] \notin st.visited
                        THEN [visited |-> st.visited \cup {neighbors[n]},
                              queue   |-> Append(st.queue, neighbors[n])]
                        ELSE st)

\* while (queue.length > 0)
RECURSIVE bfsLoop(_, _)
bfsLoop(g, st) ==
  IF Len(st.queue) = 0 THEN st
  ELSE LET vertex == Head(st.queue)
           after == enqueueNeighbors(g.nbrs[vertex], 1,
                                     [visited |-> st.visited, queue |-> Tail(st.queue)])
       IN  bfsLoop(g, [visited   |-> after.visited,
                       queue     |-> after.queue,
                       component |-> Append(st.component, vertex)])

\* bfs(startVertex), with the visited set it updates
bfs(g, startVertex, visited) ==
  bfsLoop(g, [visited   |-> visited \cup {startVertex},
              queue     |-> <<startVertex>>,
              component |-> <<>>])

RECURSIVE componentsFromBFS(_, _, _, _)
componentsFromBFS(g, n, visited, components) ==
  IF n > Len(g.keys) THEN components
  ELSE IF g.keys[n] \in visited
       THEN componentsFromBFS(g, n + 1, visited, components)
       ELSE LET st == bfs(g, g.keys[n], visited)
            IN  componentsFromBFS(g, n + 1, st.visited, Append(components, st.component))

findConnectedComponentsBFS(g) == componentsFromBFS(g, 1, {}, <<>>)

(***************************************************************************)
(* clustering.createClusters                                               *)
(***************************************************************************)
\* documents.forEach(doc => graph.addVertex(doc.id))
RECURSIVE addVertices(_, _, _)
addVertices(g, docs, n) ==
  IF n > Len(docs) THEN g
  ELSE addVertices(addVertex(g, docs[n].id), docs, n + 1)

\* sim.similarity >= threshold
aboveThresholdStrict(sim, t) == sim.similarity.num > t * sim.similarity.den

aboveThresholdFlipped(sim, t) == sim.similarity.num <= t * sim.similarity.den

aboveThreshold(sim, t) == RatGeqInt(sim.similarity, t)

\* similarities.forEach(sim => { if (sim.similarity >= threshold) graph.addEdge(...) })
RECURSIVE addEdges(_, _, _, _)
addEdges(g, sims, t, n) ==
  IF n > Len(sims) THEN g
  ELSE addEdges(IF aboveThreshold(sims[n], t)
                THEN addEdge(g, sims[n].doc1Id, sims[n].doc2Id)
                ELSE g,
                sims, t, n + 1)

buildGraph(docs, sims, t) == addEdges(addVertices(emptyGraph, docs, 1), sims, t, 1)

\* clusterSims.reduce((sum, s) => sum + s.similarity, 0)
RECURSIVE sumSimilarity(_, _)
sumSimilarity(sims, n) ==
  IF n > Len(sims) THEN Rat(0, 1)
  ELSE RatAdd(sims[n].similarity, sumSimilarity(sims, n + 1))

avgSimilarityByDocs(comp, sims) ==
  LET clusterSims == SelectSeq(sims, LAMBDA sim :
                        sim.doc1Id \in SetOf(comp) /\ sim.doc2Id \in SetOf(comp))
      total == sumSimilarity(clusterSims, 1)
  IN  IF Len(clusterSims) > 0
      THEN Rat(total.num, total.den * Len(comp))
      ELSE Rat(0, 1)

avgSimilarityOf(comp, sims) ==
  LET clusterSims == SelectSeq(sims, LAMBDA sim :
                        sim.doc1Id \in SetOf(comp) /\ sim.doc2Id \in SetOf(comp))
      total == sumSimilarity(clusterSims, 1)
  IN  IF Len(clusterSims) > 0
      THEN Rat(total.num, total.den * Len(clusterSims))
      ELSE Rat(0, 1)

\* components.filter(comp => comp.length > 1)
keepComponentAll(comp) == Len(comp) > 0

keepComponent(comp) == Len(comp) > 1

createClusters(docs, sims, t) ==
  LET components == findConnectedComponents(buildGraph(docs, sims, t))
      kept == SelectSeq(components, keepComponent)
  IN  [index \in 1..Len(kept) |->
         [id            |-> index - 1,
          documents     |-> kept[index],
          avgSimilarity |-> avgSimilarityOf(kept[index], sims)]]

(***************************************************************************)
(* clustering.createGraphData.  A node's x and y are radius * cos(angle)   *)
(* and radius * sin(angle) with angle = index * 2 * PI / documents.length: *)
(* they are kept as position = [radius, turn], turn being the fraction     *)
(* index / documents.length of a full turn.                                *)
(***************************************************************************)
\* clusters.findIndex(c => c.documents.includes(id)): from 0, and -1 when none
RECURSIVE findIndex(_, _, _)
findIndex(cs, id, n) ==
  IF n > Len(cs) THEN -1
  ELSE IF id \in SetOf(cs[n].documents) THEN n - 1
  ELSE findIndex(cs, id, n + 1)

\* sim.similarity >= 35
edgeShownFrom30(sim) == RatGeqInt(sim.similarity, 30)

edgeShown(sim) == RatGeqInt(sim.similarity, 35)

createGraphDataFlatZ(docs, sims, cs) ==
  LET nodes == [index \in 1..Len(docs) |->
                 LET clusterIndex == findIndex(cs, docs[index].id, 1)
                 IN  [id       |-> docs[index].id,
                      name     |-> docs[index].name,
                      position |-> [radius |-> 5, turn |-> Rat(index - 1, Len(docs))],
                      z        |-> IF clusterIndex >= 0 THEN clusterIndex ELSE 0,
                      cluster  |-> IF clusterIndex >= 0 THEN clusterIndex ELSE -1]]
      shown == SelectSeq(sims, edgeShown)
      edges == [n \in 1..Len(shown) |->
                 [source     |-> shown[n].doc1Id,
                  target     |-> shown[n].doc2Id,
                  similarity |-> shown[n].similarity]]
  IN  [nodes |-> nodes, edges |-> edges]

createGraphData(docs, sims, cs) ==
  LET nodes == [index \in 1..Len(docs) |->
                 LET clusterIndex == findIndex(cs, docs[index].id, 1)
                 IN  [id       |-> docs[index].id,
                      name     |-> docs[index].name,
                      position |-> [radius |-> 5, turn |-> Rat(index - 1, Len(docs))],
                      z        |-> IF clusterIndex >= 0 THEN clusterIndex * 2 ELSE 0,
                      cluster  |-> IF clusterIndex >= 0 THEN clusterIndex ELSE -1]]
      shown == SelectSeq(sims, edgeShown)
      edges == [n \in 1..Len(shown) |->
                 [source     |-> shown[n].doc1Id,
                  target     |-> shown[n].doc2Id,
                  similarity |-> shown[n].similarity]]
  IN  [nodes |-> nodes, edges |-> edges]

(***************************************************************************)
(* Inputs.                                                                 *)
(***************************************************************************)
DocId(n) == <<"id", n>>

DocName(n) == <<"file", n>>

Doc(n, content) == [id |-> DocId(n), name |-> DocName(n), content |-> content]

TheCatSat == <<"t", "h", "e", " ", "c", "a", "t", " ", "s", "a", "t">>

ADogRan == <<"a", " ", "d", "o", "g", " ", "r", "a", "n">>

\* the contents of the documents of a batch of more than two
Corpus == {TheCatSat, ADogRan, <<>>}

\* two documents of arbitrary content
PairInputs ==
  {<<Doc(1, a), Doc(2, b)>> : a \in TextsUpTo(MaxPairLen), b \in TextsUpTo(MaxPairLen)}

\* two documents of equal content
TwinInputs == {<<Doc(1, a), Doc(2, a)>> : a \in TextsUpTo(MaxLen)}

\* 0..MaxDocs documents
BatchInputs ==
  UNION {{[d \in 1..n |-> Doc(d, c[d])] : c \in [1..n -> Corpus]} : n \in 0..MaxDocs}

\* the thresholds createClusters is called with (35 is the default and the pipeline's)
Thresholds == {0, 30, 35, 100}

\* the similarity values of entries handed to createClusters directly
SimLevels == {Rat(35, 1), Rat(100, 3)}

\* the pairs of positions in the order computeAllSimilarities emits them
RECURSIVE pairsFrom(_, _, _)
pairsFrom(n, i, j) ==
  IF i > n THEN <<>>
  ELSE IF j > n THEN pairsFrom(n, i + 1, i + 2)
  ELSE <<<<i, j>>>> \o pairsFrom(n, i, j + 1)

\* the entries chosen by `chosen` (a set of indices into pairs), with levels lv
RECURSIVE entriesFrom(_, _, _, _)
entriesFrom(pairs, chosen, lv, n) ==
  IF n > Len(pairs) THEN <<>>
  ELSE (IF n \in chosen
        THEN <<[doc1Id |-> DocId(pairs[n][1]), doc2Id |-> DocId(pairs[n][2]),
                doc1Name |-> DocName(pairs[n][1]), doc2Name |-> DocName(pairs[n][2]),
                similarity |-> lv[n], matchedSections |-> <<>>]>>
        ELSE <<>>) \o entriesFrom(pairs, chosen, lv, n + 1)

SimInputs(n) ==
  LET pairs == pairsFrom(n, 1, 2)
  IN  UNION {{entriesFrom(pairs, chosen, lv, 1) : lv \in [chosen -> SimLevels]} :
               chosen \in {c \in SUBSET (1..Len(pairs)) : Cardinality(c) <= MaxSims}}

\* no batch of documents is analysed
NoPipeline ==
  /\ text = <<>>
  /\ k = 3
  /\ shingles = <<>>
  /\ documents = <<>>
  /\ similarities = <<>>
  /\ threshold = 35
  /\ clusters = <<>>
  /\ graph = Null
  /\ graphData = Null

pipelineVars ==
  <<text, k, shingles, documents, similarities, threshold, clusters, graph, graphData>>

(***************************************************************************)
(* createShingles applied to one text.                                     *)
(***************************************************************************)
InitShingles ==
  /\ text \in TextsUpTo(MaxLen)
  /\ k \in 1..MaxK
  /\ shingles = <<>>
  /\ documents = <<>>
  /\ similarities = <<>>
  /\ threshold = 35
  /\ clusters = <<>>
  /\ pc = "ready"
  /\ NoStrings
  /\ graph = Null
  /\ graphData = Null
  /\ NoPage

CreateShingles ==
  /\ pc = "ready"
  /\ shingles' = createShingles(text, k)
  /\ pc' = "shingled"
  /\ UNCHANGED <<text, k, documents, similarities, threshold, clusters>>
  /\ UNCHANGED <<stringVars, graph, graphData>>
  /\ UNCHANGED pageVars

NextShingles == CreateShingles

SpecShingles == InitShingles /\ [][NextShingles]_vars

(***************************************************************************)
(* The analysis of a batch of documents: computeAllSimilarities, then      *)
(* createClusters on its result.                                           *)
(***************************************************************************)
InitSim ==
  /\ text = <<>>
  /\ k = 3
  /\ shingles = <<>>
  /\ documents \in PairInputs \cup TwinInputs \cup BatchInputs
  /\ similarities = <<>>
  /\ threshold = 35
  /\ clusters = <<>>
  /\ pc = "ready"
  /\ NoStrings
  /\ graph = Null
  /\ graphData = Null
  /\ NoPage

ComputeAllSimilarities ==
  /\ pc = "ready"
  /\ similarities' = computeAllSimilarities(documents)
  /\ pc' = "computed"
  /\ UNCHANGED <<text, k, shingles, documents, threshold, clusters>>
  /\ UNCHANGED <<stringVars, graph, graphData>>
  /\ UNCHANGED pageVars

CreateClusters(t) ==
  /\ pc \in {"computed", "clustered"}
  /\ threshold' = t
  /\ clusters' = createClusters(documents, similarities, t)
  /\ pc' = "clustered"
  /\ UNCHANGED <<text, k, shingles, documents, similarities>>
  /\ UNCHANGED <<stringVars, graph, graphData>>
  /\ UNCHANGED pageVars

CreateGraphData ==
  /\ pc = "clustered"
  /\ graphData' = createGraphData(documents, similarities, clusters)
  /\ pc' = "graphed"
  /\ UNCHANGED <<text, k, shingles, documents, similarities, threshold, clusters>>
  /\ UNCHANGED <<stringVars, graph>>
  /\ UNCHANGED pageVars

NextSim ==
  \/ ComputeAllSimilarities
  \/ \E t \in Thresholds : CreateClusters(t)
  \/ CreateGraphData

SpecSim == InitSim /\ [][NextSim]_vars

(***************************************************************************)
(* createClusters applied to documents and similarities of the caller's.   *)
(***************************************************************************)
InitCluster ==
  /\ text = <<>>
  /\ k = 3
  /\ shingles = <<>>
  /\ \E n \in 0..MaxDocs :
       /\ documents = [d \in 1..n |-> Doc(d, <<>>)]
       /\ similarities \in SimInputs(n)
  /\ threshold = 35
  /\ clusters = <<>>
  /\ pc = "computed"
  /\ NoStrings
  /\ graph = Null
  /\ graphData = Null
  /\ NoPage

NextCluster ==
  \/ \E t \in Thresholds : CreateClusters(t)
  \/ CreateGraphData

SpecCluster == InitCluster /\ [][NextCluster]_vars

(***************************************************************************)
(* editDistance applied to the pairs of three strings.                     *)
(***************************************************************************)
InitEdit ==
  /\ NoPipeline
  /\ strA \in StringsUpTo(MaxStrLen)
  /\ strB \in StringsUpTo(MaxStrLen)
  /\ strC \in StringsUpTo(MaxStrLen)
  /\ cap = 0
  /\ pat = <<>>
  /\ result = Null
  /\ pc = "ready"
  /\ NoPage

EditDistance ==
  /\ pc = "ready"
  /\ result' = [self      |-> editDistance(strA, strA),
                fromEmpty |-> editDistance(<<>>, strA),
                ab        |-> editDistance(strA, strB),
                bc        |-> editDistance(strB, strC),
                ac        |-> editDistance(strA, strC)]
  /\ pc' = "measured"
  /\ UNCHANGED <<pipelineVars, strA, strB, strC, cap, pat>>
  /\ UNCHANGED pageVars

NextEdit == EditDistance

SpecEdit == InitEdit /\ [][NextEdit]_vars

(***************************************************************************)
(* longestCommonSubstring applied to two strings and a cap.                *)
(***************************************************************************)
InitLcs ==
  /\ NoPipeline
  /\ strA \in StringsUpTo(MaxStrLen)
  /\ strB \in StringsUpTo(MaxStrLen)
  /\ strC = <<>>
  /\ cap \in 0..MaxCap
  /\ pat = <<>>
  /\ result = Null
  /\ pc = "ready"
  /\ NoPage

LongestCommonSubstring ==
  /\ pc = "ready"
  /\ result' = longestCommonSubstring(strA, strB, cap)
  /\ pc' = "matched"
  /\ UNCHANGED <<pipelineVars, strA, strB, strC, cap, pat>>
  /\ UNCHANGED pageVars

NextLcs == LongestCommonSubstring

SpecLcs == InitLcs /\ [][NextLcs]_vars

(***************************************************************************)
(* rabinKarpSearch applied to a text and a pattern: short ones over three  *)
(* letters, and runs of one letter around the longest pattern whose        *)
(* high-order power is finite.                                             *)
(***************************************************************************)
SearchLetters == {"a", "e", "o"}

RECURSIVE WordsOfLen(_)
WordsOfLen(n) ==
  IF n = 0 THEN {<<>>}
  ELSE {Append(t, c) : t \in WordsOfLen(n - 1), c \in SearchLetters}

Run(n) == [i \in 1..n |-> "a"]

ShortSearches ==
  {<<t, p>> : t \in UNION {WordsOfLen(n) : n \in 0..MaxTextLen},
              p \in UNION {WordsOfLen(m) : m \in 0..MaxPatLen}}

LongSearches ==
  {<<Run(m + extra), Run(m)>> : m \in {MaxFinitePow + 1, MaxFinitePow + 2},
                                extra \in 0..2}

InitSearch ==
  /\ k = 3
  /\ shingles = <<>>
  /\ documents = <<>>
  /\ similarities = <<>>
  /\ threshold = 35
  /\ clusters = <<>>
  /\ graph = Null
  /\ graphData = Null
  /\ strA = <<>>
  /\ strB = <<>>
  /\ strC = <<>>
  /\ cap = 0
  /\ \E input \in ShortSearches \cup LongSearches :
       /\ text = input[1]
       /\ pat = input[2]
  /\ result = Null
  /\ pc = "ready"
  /\ NoPage

RabinKarpSearch ==
  /\ pc = "ready"
  /\ result' = rabinKarpSearch(text, pat)
  /\ pc' = "searched"
  /\ UNCHANGED <<pipelineVars, strA, strB, strC, cap, pat>>
  /\ UNCHANGED pageVars

NextSearch == RabinKarpSearch

SpecSearch == InitSearch /\ [][NextSearch]_vars

(***************************************************************************)
(* A Graph built by calls of addVertex and addEdge, then traversed by      *)
(* findConnectedComponents and by findConnectedComponentsBFS.              *)
(***************************************************************************)
Vertices == {DocId(n) : n \in 1..MaxVertices}

InitGraph ==
  /\ text = <<>>
  /\ k = 3
  /\ shingles = <<>>
  /\ documents = <<>>
  /\ similarities = <<>>
  /\ threshold = 35
  /\ clusters = <<>>
  /\ graphData = Null
  /\ NoStrings
  /\ graph = emptyGraph
  /\ pc = "building"
  /\ NoPage

\* vertex is in g already, or is the next name not used yet: the names are
\* compared for equality only, so the order in which new names appear is fixed
Known(g, vertex) == hasVertex(g, vertex) \/ vertex = DocId(Len(g.keys) + 1)

AddVertex(vertex) ==
  /\ pc = "building"
  /\ Known(graph, vertex)
  /\ graph' = addVertex(graph, vertex)
  /\ UNCHANGED <<text, k, shingles, documents, similarities, threshold, clusters>>
  /\ UNCHANGED <<pc, stringVars, graphData>>
  /\ UNCHANGED pageVars

\* the edges of g, each as the set of its ends
EdgesOf(g) == {{v, w} : v \in SetOf(g.keys), w \in SetOf(g.keys)} \cap
              UNION {{{v, w} : w \in SetOf(g.nbrs[v])} : v \in SetOf(g.keys)}

AddEdge(v1, v2) ==
  /\ pc = "building"
  /\ Known(graph, v1)
  /\ Known(addVertex(graph, v1), v2)
  /\ Cardinality(EdgesOf(addEdge(graph, v1, v2))) <= MaxEdges
  /\ graph' = addEdge(graph, v1, v2)
  /\ UNCHANGED <<text, k, shingles, documents, similarities, threshold, clusters>>
  /\ UNCHANGED <<pc, stringVars, graphData>>
  /\ UNCHANGED pageVars

FindConnectedComponents ==
  /\ pc = "building"
  /\ result' = [dfs |-> findConnectedComponents(graph),
                bfs |-> findConnectedComponentsBFS(graph)]
  /\ pc' = "traversed"
  /\ UNCHANGED <<pipelineVars, strA, strB, strC, cap, pat>>
  /\ UNCHANGED pageVars

NextGraph ==
  \/ \E vertex \in Vertices : AddVertex(vertex)
  \/ \E v1 \in Vertices, v2 \in Vertices : AddEdge(v1, v2)
  \/ FindConnectedComponents

SpecGraph == InitGraph /\ [][NextGraph]_vars

(***************************************************************************)
(* The page Index: handleFilesProcessed, called by FileUploader with the   *)
(* files read, the worker it starts, and the reset button.  documents,     *)
(* similarities, clusters, graphData and isProcessing are the state of the *)
(* page.  A run of handleFilesProcessed is a record: pc, where it stands;  *)
(* files, its argument; docs, its processedDocs; simResults,               *)
(* clusterResults, graphResults, its locals of these names (Null: not      *)
(* assigned); attempt, what became of its worker; source, the computation  *)
(* its locals come from; syncs, the main-thread computations it started;   *)
(* errors and successes, its calls of toast.error and toast.success.       *)
(***************************************************************************)
\* "The cat sat on mat rug!", which preprocessText turns into "cat sat mat rug"
RawCat ==
  <<"T", "h", "e", " ", "c", "a", "t", " ", "s", "a", "t", " ", "o", "n",
    " ", "m", "a", "t", " ", "r", "u", "g", "!">>

\* "A dog ran!", which preprocessText turns into "dog ran"
RawDog == <<"A", " ", "d", "o", "g", " ", "r", "a", "n", "!">>

\* the contents of the files uploaded
PageCorpus == {RawCat, RawDog}

Runs == {1, 2}

\* the files the uploader hands to run r: 2..MaxFiles of them, with fresh ids
Uploads(r) ==
  UNION {{[i \in 1..n |-> Doc((r - 1) * (MaxFiles + 1) + i, c[i])] :
            c \in [1..n -> PageCorpus]} : n \in 2..MaxFiles}

\* the call of the pipeline that throws, "none" when no call does
Failures == {"none", "similarities", "clusters", "graphData"}

\* computeAllSimilarities, createClusters with threshold 35 and createGraphData
\* on docs, when no call throws
pipeline(docs) ==
  LET sims == computeAllSimilarities(docs)
      cs == createClusters(docs, sims, 35)
  IN  [similarities |-> sims, clusters |-> cs,
       graphData |-> createGraphData(docs, sims, cs)]

\* the same when the call failAt throws: ok, and the values computed till
\* then, full being what the three calls return when none throws; a local
\* that was never assigned is empty and is never read
analyse(full, failAt) ==
  [ok           |-> failAt = "none",
   similarities |-> IF failAt = "similarities" THEN <<>> ELSE full.similarities,
   clusters     |-> IF failAt \in {"similarities", "clusters"} THEN <<>>
                    ELSE full.clusters,
   graphData    |-> IF failAt = "none" THEN full.graphData ELSE Null]

\* the locals after the main-thread computation, or the exception thrown
computeNowhere(full, failAt) ==
  [source |-> "none", syncs |-> 0, res |-> analyse(full, "similarities")]

computeHere(full, failAt) ==
  [source |-> "sync", syncs |-> 1, res |-> analyse(full, failAt)]

\* the locals after const res = await workerPromise, resolved with message
fromWorker(message) ==
  [source |-> "worker", syncs |-> 0,
   res |-> [ok |-> TRUE, similarities |-> message.similarities,
            clusters |-> message.clusters, graphData |-> message.graphData]]

\* the end of handleFilesProcessed: the setters called when the locals were
\* all assigned, or the report of the exception
concludeAsComputed(res) ==
  [similarities |-> res.similarities # <<>>,
   clusters     |-> res.clusters # <<>>,
   graphData    |-> res.graphData # Null,
   errors       |-> IF res.ok THEN 0 ELSE 1,
   successes    |-> IF res.ok THEN 1 ELSE 0]

conclude(res) ==
  [similarities |-> res.ok,
   clusters     |-> res.ok,
   graphData    |-> res.ok,
   errors       |-> IF res.ok THEN 0 ELSE 1,
   successes    |-> IF res.ok THEN 1 ELSE 0]

\* files.map(file => ({ ...file, content: preprocessText(file.content) }))
RECURSIVE preprocessAll(_, _)
preprocessAll(files, i) ==
  IF i > Len(files) THEN <<>>
  ELSE <<[id      |-> files[i].id,
          name    |-> files[i].name,
          content |-> preprocessText(files[i].content)]>> \o preprocessAll(files, i + 1)

IdleRun ==
  [pc |-> "idle", files |-> <<>>, docs |-> <<>>, attempt |-> "none",
   source |-> "none", syncs |-> 0, simResults |-> Null, clusterResults |-> Null,
   graphResults |-> Null, errors |-> 0, successes |-> 0]

NoWorker == [status |-> "absent", message |-> Null]

InitPage ==
  /\ text = <<>>
  /\ k = 3
  /\ shingles = <<>>
  /\ threshold = 35
  /\ graph = Null
  /\ NoStrings
  /\ pc = "page"
  /\ documents = <<>>
  /\ similarities = <<>>
  /\ clusters = <<>>
  /\ graphData = Null
  /\ isProcessing = FALSE
  /\ workerDefined \in BOOLEAN
  /\ runs = [r \in Runs |-> IdleRun]
  /\ workers = [r \in Runs |-> NoWorker]

\* FileUploader.processFiles: the uploader is shown, the files are being read
ProcessFiles(r, upload) ==
  /\ runs[r].pc = "idle"
  /\ documents = <<>>
  /\ runs' = [runs EXCEPT ![r].pc = "reading", ![r].files = upload]
  /\ UNCHANGED <<text, k, shingles, threshold, graph, stringVars, pc>>
  /\ UNCHANGED <<documents, similarities, clusters, graphData>>
  /\ UNCHANGED <<isProcessing, workerDefined, workers>>

\* lines 99-109: run r ends with the locals of outcome
Conclude(r, docs, attempt, outcome) ==
  LET res == outcome.res
      out == conclude(res)
  IN  /\ runs' = [runs EXCEPT ![r] =
                    [pc             |-> "done",
                     files          |-> runs[r].files,
                     docs           |-> docs,
                     attempt        |-> attempt,
                     source         |-> outcome.source,
                     syncs          |-> outcome.syncs,
                     simResults     |-> res.similarities,
                     clusterResults |-> res.clusters,
                     graphResults   |-> res.graphData,
                     errors         |-> out.errors,
                     successes      |-> out.successes]]
      /\ similarities' = IF out.similarities THEN res.similarities ELSE similarities
      /\ clusters' = IF out.clusters THEN res.clusters ELSE clusters
      /\ graphData' = IF out.graphData THEN res.graphData ELSE graphData
      /\ isProcessing' = FALSE

\* handleFilesProcessed(files) up to its await, or to its end when no worker
\* is started: Worker is undefined, or new Worker throws
HandleFilesProcessed(r) ==
  /\ runs[r].pc = "reading"
  /\ \E processedDocs \in {preprocessAll(runs[r].files, 1)} :
     \E full \in {pipeline(processedDocs)} :
         /\ documents' = processedDocs
         /\ \/ /\ ~ workerDefined
               /\ \E failAt \in Failures :
                    Conclude(r, processedDocs, "undefined", computeHere(full, failAt))
               /\ UNCHANGED workers
            \/ /\ workerDefined
               /\ \E failAt \in Failures :
                    Conclude(r, processedDocs, "throws", computeHere(full, failAt))
               /\ UNCHANGED workers
            \/ /\ workerDefined
               /\ workers' = [workers EXCEPT ![r] =
                                [status |-> "running",
                                 message |-> [documents |-> processedDocs]]]
               /\ runs' = [runs EXCEPT ![r].pc = "awaiting",
                                       ![r].docs = processedDocs]
               /\ isProcessing' = TRUE
               /\ UNCHANGED <<similarities, clusters, graphData>>
  /\ UNCHANGED <<text, k, shingles, threshold, graph, stringVars, pc, workerDefined>>

\* the worker's message listener: it posts the results, or the error
WorkerListener(r) ==
  /\ workers[r].status = "running"
  /\ \E full \in {pipeline(workers[r].message.documents)} :
       \E failAt \in Failures :
       LET res == analyse(full, failAt)
       IN  workers' = [workers EXCEPT ![r] =
                         [status  |-> "posted",
                          message |-> IF res.ok
                                      THEN [error        |-> FALSE,
                                            similarities |-> res.similarities,
                                            clusters     |-> res.clusters,
                                            graphData    |-> res.graphData]
                                      ELSE [error |-> TRUE]]]
  /\ UNCHANGED <<text, k, shingles, threshold, graph, stringVars, pc>>
  /\ UNCHANGED <<documents, similarities, clusters, graphData>>
  /\ UNCHANGED <<isProcessing, workerDefined, runs>>

\* the page's 'message' listener and the rest of handleFilesProcessed
OnWorkerMessage(r) ==
  /\ workers[r].status = "posted"
  /\ runs[r].pc = "awaiting"
  /\ IF workers[r].message.error
     THEN /\ \E full \in {pipeline(runs[r].docs)} :
                 \E failAt \in Failures :
                   Conclude(r, runs[r].docs, "postedError", computeHere(full, failAt))
          /\ workers' = [workers EXCEPT ![r].status = "answered"]
     ELSE /\ Conclude(r, runs[r].docs, "postedResult", fromWorker(workers[r].message))
          /\ workers' = [workers EXCEPT ![r].status = "terminated"]
  /\ UNCHANGED <<text, k, shingles, threshold, graph, stringVars, pc>>
  /\ UNCHANGED <<documents, workerDefined>>

\* the worker raises an error event: the page's 'error' listener and the rest
\* of handleFilesProcessed
OnWorkerError(r) ==
  /\ workers[r].status = "running"
  /\ runs[r].pc = "awaiting"
  /\ \E full \in {pipeline(runs[r].docs)} :
       \E failAt \in Failures :
           Conclude(r, runs[r].docs, "errorEvent", computeHere(full, failAt))
  /\ workers' = [workers EXCEPT ![r].status = "errored"]
  /\ UNCHANGED <<text, k, shingles, threshold, graph, stringVars, pc>>
  /\ UNCHANGED <<documents, workerDefined>>

\* the button 'Analyze new documents', shown with the results
Reset ==
  /\ Len(documents) > 0
  /\ ~ isProcessing
  /\ graphData # Null
  /\ documents' = <<>>
  /\ similarities' = <<>>
  /\ clusters' = <<>>
  /\ graphData' = Null
  /\ UNCHANGED <<text, k, shingles, threshold, graph, stringVars, pc>>
  /\ UNCHANGED <<isProcessing, workerDefined, runs, workers>>

NextPage ==
  \/ \E r \in Runs : \E upload \in Uploads(r) : ProcessFiles(r, upload)
  \/ \E r \in Runs : HandleFilesProcessed(r)
  \/ \E r \in Runs : WorkerListener(r)
  \/ \E r \in Runs : OnWorkerMessage(r)
  \/ \E r \in Runs : OnWorkerError(r)
  \/ Reset

SpecPage == InitPage /\ [][NextPage]_vars

(***************************************************************************)
(* Notions the properties are stated in, defined without the code's        *)
(* operators.                                                              *)
(***************************************************************************)
\* the number of non-empty whitespace-separated words of s: its word starts
WordCount(s) ==
  Cardinality({p \in 1..Len(s) : ~IsSpace(s[p]) /\ (p = 1 \/ IsSpace(s[p - 1]))})

\* the place of the pair i < j in the order i = 1..n, j = i+1..n
PairRank(n, i, j) == (i - 1) * n - ((i - 1) * i) \div 2 + (j - i)

\* the ids of the documents
DocIds == {documents[d].id : d \in 1..Len(documents)}

\* the documents of the clusters cs, and whether one cluster of cs holds a and b
ClusteredDocs(cs) == UNION {SetOf(cs[c].documents) : c \in 1..Len(cs)}

Together(cs, a, b) ==
  \E c \in 1..Len(cs) : a \in SetOf(cs[c].documents) /\ b \in SetOf(cs[c].documents)

\* two documents of equal content
Twins == Len(documents) = 2 /\ documents[1].content = documents[2].content

\* the pairs joined by an entry of similarity >= t
Linked(t) ==
  {<<similarities[n].doc1Id, similarities[n].doc2Id>> : n \in
     {m \in 1..Len(similarities) :
        similarities[m].similarity.num >= t * similarities[m].similarity.den}}

\* the documents a path of such entries joins to a
RECURSIVE Reach(_, _)
Reach(S, t) ==
  LET more == S \cup {p[2] : p \in {q \in Linked(t) : q[1] \in S}}
                \cup {p[1] : p \in {q \in Linked(t) : q[2] \in S}}
  IN  IF more = S THEN S ELSE Reach(more, t)

(***************************************************************************)
(* C1: two distinct documents are in one cluster of createClusters exactly *)
(* when a path of entries of similarity >= threshold joins them, and every *)
(* document with such an entry is in some cluster.                         *)
(***************************************************************************)
C1_ClustersAreComponents ==
  pc = "clustered" =>
    /\ \A a \in DocIds : \A b \in DocIds \ {a} :
         Together(clusters, a, b) <=> b \in Reach({a}, threshold)
    /\ \A p \in Linked(threshold) :
         p[1] \in ClusteredDocs(clusters) /\ p[2] \in ClusteredDocs(clusters)

\* three documents in one cluster, two of them joined only through the third,
\* by an entry whose similarity equals the threshold
C1_Witness ==
  /\ pc = "clustered"
  /\ threshold = 35
  /\ Len(documents) >= 3
  /\ <<DocId(1), DocId(3)>> \in Linked(35)
  /\ <<DocId(2), DocId(3)>> \in Linked(35)
  /\ <<DocId(1), DocId(2)>> \notin Linked(35)
  /\ Together(clusters, DocId(1), DocId(2))

(***************************************************************************)
(* C2: the clusters of createClusters are pairwise disjoint, hold no       *)
(* document twice and have at least 2 documents each; a document alone in  *)
(* its component is in no cluster.                                         *)
(***************************************************************************)
C2_ClustersDisjointAndPlural ==
  pc = "clustered" =>
    /\ \A c \in 1..Len(clusters) :
         /\ Len(clusters[c].documents) >= 2
         /\ Cardinality(SetOf(clusters[c].documents)) = Len(clusters[c].documents)
    /\ \A c \in 1..Len(clusters) : \A d \in 1..Len(clusters) :
         c # d => SetOf(clusters[c].documents) \cap SetOf(clusters[d].documents) = {}
    /\ \A a \in DocIds :
         Reach({a}, threshold) = {a} => a \notin ClusteredDocs(clusters)

\* a cluster, and a document in none
C2_Witness ==
  /\ pc = "clustered"
  /\ Len(clusters) >= 1
  /\ \E a \in DocIds : a \notin ClusteredDocs(clusters)
  /\ \E a \in DocIds : a \in ClusteredDocs(clusters)

(***************************************************************************)
(* C3: raising the threshold never increases the cluster count: the number *)
(* of clusters at a threshold t2 >= t1 is at most the number at t1.        *)
(***************************************************************************)
C3_CountMonotone ==
  pc = "clustered" =>
    \A t \in Thresholds :
      t >= threshold => Len(createClusters(documents, similarities, t)) <= Len(clusters)

(***************************************************************************)
(* C3, of the documents in clusters: raising the threshold never increases *)
(* the number of documents that are in clusters, and the number of         *)
(* clusters at t2 >= t1 is at most half the number of documents clustered  *)
(* at t1.                                                                  *)
(***************************************************************************)
C3_ClusteredDocsMonotone ==
  pc = "clustered" =>
    \A t \in Thresholds :
      t >= threshold =>
        LET higher == createClusters(documents, similarities, t)
        IN  /\ Cardinality(ClusteredDocs(higher)) <= Cardinality(ClusteredDocs(clusters))
            /\ 2 * Len(higher) <= Cardinality(ClusteredDocs(clusters))

\* one cluster of four documents that a higher threshold splits in two
C3_Witness ==
  /\ pc = "clustered"
  /\ threshold = 30
  /\ Len(clusters) = 1
  /\ Len(clusters[1].documents) = 4
  /\ Len(createClusters(documents, similarities, 35)) = 2

(***************************************************************************)
(* C4: raising the threshold never increases cluster size: every cluster   *)
(* at a higher threshold is a subset of a cluster at the lower one.        *)
(***************************************************************************)
C4_ClustersRefine ==
  pc = "clustered" =>
    \A t \in Thresholds :
      t >= threshold =>
        LET higher == createClusters(documents, similarities, t)
        IN  \A c \in 1..Len(higher) : \E d \in 1..Len(clusters) :
              /\ SetOf(higher[c].documents) \subseteq SetOf(clusters[d].documents)
              /\ Len(higher[c].documents) <= Len(clusters[d].documents)

\* a cluster of three documents of which a higher threshold keeps two
C4_Witness ==
  /\ pc = "clustered"
  /\ threshold = 30
  /\ Len(clusters) = 1
  /\ Len(clusters[1].documents) = 3
  /\ Len(createClusters(documents, similarities, 35)) = 1
  /\ Len(createClusters(documents, similarities, 35)[1].documents) = 2

(***************************************************************************)
(* C5: computeAllSimilarities over n documents returns n(n-1)/2 results,   *)
(* the result of positions i < j standing at the place of (i, j) in the    *)
(* order of the two loops, with doc1Id the id of document i and doc2Id     *)
(* that of document j: one result for each pair of positions, none         *)
(* repeated, no document paired with itself.                               *)
(***************************************************************************)
C5_OnePerPairInLoopOrder ==
  pc # "ready" =>
    LET n == Len(documents)
    IN  /\ 2 * Len(similarities) = n * (n - 1)
        /\ \A i \in 1..n : \A j \in (i + 1)..n :
             /\ similarities[PairRank(n, i, j)].doc1Id = documents[i].id
             /\ similarities[PairRank(n, i, j)].doc2Id = documents[j].id

C5_Witness ==
  /\ pc = "computed"
  /\ Len(documents) = 4
  /\ Len(similarities) = 6
  /\ similarities[4].doc1Id = documents[2].id
  /\ similarities[4].doc2Id = documents[3].id

(***************************************************************************)
(* C6: the scores of a pair are the same in both orders:                   *)
(* computeAllSimilarities([A,B]) and computeAllSimilarities([B,A]) give    *)
(* the same Jaccard score, rawMatchCount, avgWords, matchMetric,           *)
(* similarity and compositeScore.                                          *)
(***************************************************************************)
C6_PairSymmetric ==
  (pc # "ready" /\ Len(documents) = 2) =>
    LET A == documents[1]
        B == documents[2]
        ab == similarities[1]
        ba == computeAllSimilarities(<<B, A>>)[1]
    IN  /\ RatEq(jaccardSimilarity(createShingles(A.content, 3), createShingles(B.content, 3)),
                 jaccardSimilarity(createShingles(B.content, 3), createShingles(A.content, 3)))
        /\ ab.rawMatchCount = ba.rawMatchCount
        /\ ab.avgWords = ba.avgWords
        /\ RatEq(ab.matchMetric, ba.matchMetric)
        /\ RatEq(ab.similarity, ba.similarity)
        /\ RatEq(ab.compositeScore, ba.compositeScore)

\* two documents of different content that share a shingle and pass the Jaccard gate
C6_Witness ==
  /\ pc = "computed"
  /\ Len(documents) = 2
  /\ documents[1].content # documents[2].content
  /\ Len(createShingles(documents[1].content, 3)) # Len(createShingles(documents[2].content, 3))
  /\ similarities[1].rawMatchCount > 0
  /\ ~RatEq(similarities[1].compositeScore, Rat(100, 1))

C8_SimilarityIsPercentage ==
  pc # "ready" =>
    \A n \in 1..Len(similarities) :
      /\ similarities[n].similarity.den > 0
      /\ similarities[n].similarity.num >= 0
      /\ similarities[n].similarity.num <= 100 * similarities[n].similarity.den

\* contents with whitespace at both ends that reach 100
C8_Witness ==
  /\ pc = "computed"
  /\ Len(documents) = 2
  /\ Len(documents[1].content) > 0
  /\ IsSpace(documents[1].content[1])
  /\ IsSpace(documents[1].content[Len(documents[1].content)])
  /\ RatEq(similarities[1].similarity, Rat(100, 1))

C10_ShingleLength ==
  pc = "shingled" => Len(shingles) = Max2(0, WordCount(text) - k + 1)

(***************************************************************************)
(* C11: editDistance of a string to itself is 0, of the empty string to a  *)
(* string s is the length of s, and for all strings a, b, c                *)
(* editDistance(a, c) <= editDistance(a, b) + editDistance(b, c).          *)
(***************************************************************************)
C11_EditDistanceMetric ==
  pc = "measured" =>
    /\ result.self = 0
    /\ result.fromEmpty = Len(strA)
    /\ result.ac <= result.ab + result.bc

\* three different strings on which the triangle inequality is an equality of
\* two positive distances
C11_Witness ==
  /\ pc = "measured"
  /\ strA # <<>>
  /\ result.ab > 0
  /\ result.bc > 0
  /\ result.ac = result.ab + result.bc

\* the first n characters of s
FirstChars(s, n) == [i \in 1..Min2(n, Len(s)) |-> s[i]]

\* x occurs in s as a run of consecutive characters
OccursIn(x, s) ==
  \E i \in 0..(Len(s) - Len(x)) : \A j \in 1..Len(x) : s[i + j] = x[j]

\* s and t have a common run of n consecutive characters
CommonRun(s, t, n) ==
  \E i \in 0..(Len(s) - n), j \in 0..(Len(t) - n) :
    \A d \in 1..n : s[i + d] = t[j + d]

(***************************************************************************)
(* C12: longestCommonSubstring(a, b, cap) is a run of consecutive          *)
(* characters of both the first cap characters of a and the first cap      *)
(* characters of b, is at most min(len(a), len(b), cap) long, no longer    *)
(* common run of the truncated inputs exists, and it is empty exactly when *)
(* the truncated inputs share no character.                                *)
(***************************************************************************)
C12_LongestCommonSubstring ==
  pc = "matched" =>
    LET a == FirstChars(strA, cap)
        b == FirstChars(strB, cap)
    IN  /\ OccursIn(result, a)
        /\ OccursIn(result, b)
        /\ Len(result) <= Min3(Len(strA), Len(strB), cap)
        /\ ~ CommonRun(a, b, Len(result) + 1)
        /\ (result = <<>>) <=> ~ CommonRun(a, b, 1)

\* the cap cuts both strings, and the whole strings share a longer run than the
\* non-empty one returned
C12_Witness ==
  /\ pc = "matched"
  /\ Len(strA) > cap
  /\ Len(strB) > cap
  /\ result # <<>>
  /\ CommonRun(strA, strB, Len(result) + 1)

\* the offsets at which pattern occurs in txt
Occurrences(txt, pattern) ==
  {i \in 0..(Len(txt) - Len(pattern)) :
     \A j \in 1..Len(pattern) : txt[i + j] = pattern[j]}

(***************************************************************************)
(* C13: rabinKarpSearch(text, pattern) returns, in ascending order,        *)
(* exactly the offsets i at which text[i .. i + len(pattern)) equals       *)
(* pattern: no occurrence is missed after any number of rolling-hash       *)
(* updates, none is reported on a mere hash collision, and the result is   *)
(* empty when the pattern is longer than the text.                         *)
(***************************************************************************)
C13_ExactlyTheOccurrences ==
  pc = "searched" =>
    /\ SetOf(result) = Occurrences(text, pat)
    /\ \A i \in 1..Len(result), j \in 1..Len(result) : i < j => result[i] < result[j]

\* the positions in cs of the clusters that contain the document id
ClustersOf(cs, id) == {c \in 1..Len(cs) : id \in SetOf(cs[c].documents)}

(***************************************************************************)
(* C14: createGraphData returns exactly one node per input document, in    *)
(* input order, and on clusters produced by createClusters each node's     *)
(* cluster field is the id of the cluster that contains the document (-1   *)
(* if none) and its z is twice that id (0 if none).                        *)
(***************************************************************************)
C14_OneNodePerDocument ==
  pc = "graphed" =>
    /\ Len(graphData.nodes) = Len(documents)
    /\ \A i \in 1..Len(documents) :
         LET node == graphData.nodes[i]
             inside == ClustersOf(clusters, documents[i].id)
         IN  /\ node.id = documents[i].id
             /\ node.name = documents[i].name
             /\ IF inside = {}
                THEN node.cluster = -1 /\ node.z = 0
                ELSE \A c \in inside :
                       node.cluster = clusters[c].id /\ node.z = 2 * clusters[c].id

\* four documents in two clusters: a node of the second cluster, with z = 2
C14_Witness ==
  /\ pc = "graphed"
  /\ Len(clusters) = 2
  /\ \E i \in 1..Len(graphData.nodes) :
       graphData.nodes[i].cluster = 1 /\ graphData.nodes[i].z = 2

\* the positions in sims of the entries whose two documents are both in docIds
EntriesInside(sims, docIds) ==
  {n \in 1..Len(sims) : sims[n].doc1Id \in docIds /\ sims[n].doc2Id \in docIds}

\* the sum of the similarity of the entries of sims at the positions in S
RECURSIVE TotalOver(_, _)
TotalOver(sims, S) ==
  IF S = {} THEN Rat(0, 1)
  ELSE LET n == CHOOSE x \in S : TRUE
       IN  RatAdd(sims[n].similarity, TotalOver(sims, S \ {n}))

(***************************************************************************)
(* C15: for every cluster returned by createClusters, avgSimilarity is the *)
(* mean of the similarity of all entries whose two endpoints both lie in   *)
(* the cluster, entries below the threshold included, and there is at      *)
(* least one such entry, so the default 0 is never used.                   *)
(***************************************************************************)
C15_AvgSimilarityIsMean ==
  pc \in {"clustered", "graphed"} =>
    \A c \in 1..Len(clusters) :
      LET inside == EntriesInside(similarities, SetOf(clusters[c].documents))
          total == TotalOver(similarities, inside)
      IN  /\ inside # {}
          /\ RatEq(clusters[c].avgSimilarity,
                   Rat(total.num, total.den * Cardinality(inside)))

\* a cluster formed at threshold 35 with an entry below 35 between two of its
\* documents, which lowers the mean below 35
C15_Witness ==
  /\ pc = "clustered"
  /\ threshold = 35
  /\ \E c \in 1..Len(clusters) :
       /\ \E n \in EntriesInside(similarities, SetOf(clusters[c].documents)) :
            ~ RatGeqInt(similarities[n].similarity, 35)
       /\ ~ RatGeqInt(clusters[c].avgSimilarity, 35)

\* the components as a set of sets of vertices
AsSets(components) == {SetOf(components[c]) : c \in 1..Len(components)}

\* every vertex of g is listed once in all of components
ListsEachOnce(g, components) ==
  \A v \in SetOf(g.keys) :
    Cardinality({<<c, i>> \in (1..Len(components)) \X (1..Len(g.keys)) :
                   i <= Len(components[c]) /\ components[c][i] = v}) = 1

(***************************************************************************)
(* C16: on every graph built by addVertex and addEdge,                     *)
(* findConnectedComponents and findConnectedComponentsBFS return the same  *)
(* partition of the vertices into components (as sets), every vertex is in *)
(* exactly one component, and each traversal lists a vertex at most once.  *)
(***************************************************************************)
C16_SamePartition ==
  pc = "traversed" =>
    /\ AsSets(result.dfs) = AsSets(result.bfs)
    /\ ListsEachOnce(graph, result.dfs)
    /\ ListsEachOnce(graph, result.bfs)
    /\ \A c \in 1..Len(result.dfs) : Len(result.dfs[c]) <= Len(graph.keys)
    /\ \A c \in 1..Len(result.bfs) : Len(result.bfs[c]) <= Len(graph.keys)

\* a component of four vertices that the two traversals list in different
\* orders
C16_Witness ==
  /\ pc = "traversed"
  /\ \E c \in 1..Len(result.dfs) :
       /\ Len(result.dfs[c]) = 4
       /\ result.dfs[c] \notin SetOf(result.bfs)

\* run r of handleFilesProcessed ends in this step
Finishes(r) == runs[r].pc # "done" /\ runs'[r].pc = "done"

(***************************************************************************)
(* C17: a run of handleFilesProcessed is all-or-nothing.  In the step in   *)
(* which it ends, either similarities, clusters and graphData are all      *)
(* three the outputs of one complete computation over the run's            *)
(* preprocessed documents and no error is reported, or none of the three   *)
(* changes and the failure is reported exactly once as an error; and no    *)
(* other step changes the three, except the reset, which clears them all.  *)
(***************************************************************************)
C17_AllOrNothing ==
  [][/\ \A r \in Runs :
          Finishes(r) =>
            \/ /\ runs'[r].errors = 1
               /\ UNCHANGED <<similarities, clusters, graphData>>
            \/ /\ runs'[r].errors = 0
               /\ \E full \in {pipeline(runs'[r].docs)} :
                    /\ similarities' = full.similarities
                    /\ clusters' = full.clusters
                    /\ graphData' = full.graphData
     /\ (\A r \in Runs : ~ Finishes(r)) =>
          \/ UNCHANGED <<similarities, clusters, graphData>>
          \/ similarities' = <<>> /\ clusters' = <<>> /\ graphData' = Null]_vars

\* one run has ended in failure, after its worker posted an error and the
\* computation on the main thread threw; the results shown are still those
\* the other run set
C17_Witness ==
  \E r \in Runs, q \in Runs :
    /\ r # q
    /\ runs[r].pc = "done"
    /\ runs[r].attempt = "postedError"
    /\ runs[r].errors = 1
    /\ runs[q].pc = "done"
    /\ runs[q].successes = 1
    /\ graphData = runs[q].graphResults

(***************************************************************************)
(* C18: when Worker is undefined, the worker cannot be created, it posts   *)
(* an error message or it raises an error event, the run computes          *)
(* similarities, clusters (threshold 35) and graph data once on the main   *)
(* thread from its preprocessed documents and the results it publishes are *)
(* those; when the worker posts results, the run publishes the results     *)
(* posted and computes nothing on the main thread.                         *)
(***************************************************************************)
C18_FallbackOrWorker ==
  \A r \in Runs :
    runs[r].pc = "done" =>
      \/ /\ runs[r].attempt \in {"undefined", "throws", "postedError", "errorEvent"}
         /\ runs[r].syncs = 1
         /\ runs[r].source = "sync"
         /\ runs[r].successes = 1 =>
              LET full == pipeline(runs[r].docs)
              IN  /\ runs[r].simResults = full.similarities
                  /\ runs[r].clusterResults = full.clusters
                  /\ runs[r].graphResults = full.graphData
      \/ /\ runs[r].attempt = "postedResult"
         /\ runs[r].syncs = 0
         /\ runs[r].source = "worker"
         /\ runs[r].successes = 1
         /\ runs[r].simResults = workers[r].message.similarities
         /\ runs[r].clusterResults = workers[r].message.clusters
         /\ runs[r].graphResults = workers[r].message.graphData

\* the worker raised an error event, and the results on the page are those of
\* the computation on the main thread
C18_Witness ==
  \E r \in Runs :
    /\ runs[r].pc = "done"
    /\ runs[r].attempt = "errorEvent"
    /\ runs[r].successes = 1
    /\ Len(runs[r].clusterResults) = 1
    /\ clusters = runs[r].clusterResults
    /\ graphData = runs[r].graphResults

\* the page shows the results, 'Detected Clusters' among them
ResultsShown == Len(documents) > 0 /\ ~ isProcessing /\ graphData # Null

\* the entry sim joins the document id and another document of docIds
JoinsToAnother(sim, id, docIds) ==
  \/ sim.doc1Id = id /\ sim.doc2Id \in docIds \ {id}
  \/ sim.doc2Id = id /\ sim.doc1Id \in docIds \ {id}

(***************************************************************************)
(* C19: every cluster shown under 'Detected Clusters' is a group of        *)
(* documents with high similarity (>= 80%): each document of a cluster has *)
(* similarity >= 80 with at least one other document of the same cluster.  *)
(***************************************************************************)
C19_ClustersAreHighSimilarity ==
  ResultsShown =>
    \A c \in 1..Len(clusters) :
      \A id \in SetOf(clusters[c].documents) :
        \E n \in 1..Len(similarities) :
          /\ JoinsToAnother(similarities[n], id, SetOf(clusters[c].documents))
          /\ RatGeqInt(similarities[n].similarity, 80)

(***************************************************************************)
(* C20: in the output of createClusters with threshold 35 followed by      *)
(* createGraphData, every graph edge joins two nodes that carry the same   *)
(* cluster index, and that index is not -1: no edge touches an unclustered *)
(* node or crosses from one cluster to another.                            *)
(***************************************************************************)
C20_EdgesInsideClusters ==
  (pc = "graphed" /\ threshold = 35) =>
    \A e \in 1..Len(graphData.edges) :
      \E i \in 1..Len(graphData.nodes), j \in 1..Len(graphData.nodes) :
        /\ graphData.nodes[i].id = graphData.edges[e].source
        /\ graphData.nodes[j].id = graphData.edges[e].target
        /\ graphData.nodes[i].cluster = graphData.nodes[j].cluster
        /\ graphData.nodes[i].cluster # -1

\* two clusters with an edge each, and an entry below 35 that is no edge
C20_Witness ==
  /\ pc = "graphed"
  /\ threshold = 35
  /\ Len(clusters) = 2
  /\ Len(graphData.edges) >= 2
  /\ Len(graphData.edges) < Len(similarities)

\* run r has created a worker
HasWorker(r) == workers[r].status # "absent"

(***************************************************************************)
(* C21: every worker created by a run of handleFilesProcessed has been     *)
(* terminated by the time the run finishes, whether it posted a result,    *)
(* posted an error message or raised an error event.                       *)
(***************************************************************************)
C21_WorkersTerminated ==
  \A r \in Runs :
    (runs[r].pc = "done" /\ HasWorker(r)) => workers[r].status = "terminated"

\* the file uploader is rendered
UploaderShown == Len(documents) = 0

(***************************************************************************)
(* C22: whenever isProcessing is false, the page shows the file uploader   *)
(* (documents is empty) or the results with the reset 'Analyze new         *)
(* documents' (graphData is set), also after a run in which the worker and *)
(* the computation on the main thread both failed.                         *)
(***************************************************************************)
C22_WayForward == ~ isProcessing => (UploaderShown \/ ResultsShown)

(***************************************************************************)
(* C23: under any interleaving of runs of handleFilesProcessed, whenever   *)
(* the results are shown, the stored similarities, clusters and graphData  *)
(* are those computed from the stored documents.                           *)
(***************************************************************************)
C23_ResultsOfStoredDocuments ==
  ResultsShown =>
    \E full \in {pipeline(documents)} :
      /\ similarities = full.similarities
      /\ clusters = full.clusters
      /\ graphData = full.graphData

====
